---- MODULE Spec2Model ----
(***************************************************************************)
(* Model of script.py: a Streamlit script that loads a Google Sheet,       *)
(* filters it to a fixed list of columns and exports the result as a new   *)
(* Google Sheet on Drive.                                                  *)
(*                                                                         *)
(* Strings are sequences of characters.  A character is a one-symbol       *)
(* string ("/", "d", " ", "_", "1") or a word token ("Nom", "Classe") that *)
(* stands for a run of letters.  Python's None is the empty option <<>>    *)
(* and a value v that may be None is carried as <<v>>.                     *)
(***************************************************************************)
EXTENDS Integers, Sequences, FiniteSets

VARIABLES
    pc,                    \* position of the current script run
    runs,                  \* number of script runs started so far
    secrets,               \* state of st.secrets for the process
    creds_cached,          \* st.cache_resource holds the credentials
    url_sheet,             \* value of the URL text input
    sheet_id,              \* extract_sheet_id(url) inside the loader
    reader_called,         \* gspread open_by_key was called in this run
    reader_returned,       \* get_all_values returned in this run
    raw_values,            \* the sheet's cells as the Sheets API holds them
    all_values,            \* what sheet.get_all_values() returned
    df,                    \* result of the loader (None or a DataFrame)
    filter_done,           \* the column filter was evaluated in this run
    colonnes_disponibles,  \* resolved whitelist entries
    df_filtre,             \* the filtered DataFrame (None until built)
    upload_called,         \* files().create(...).execute() was called
    doc_created,           \* that call created a remote document
    temp_exists,           \* the temporary CSV file of this run exists
    file_id,               \* return value of create_spreadsheet_with_data
    report,                \* what the run reported about the export
    st_error,              \* st.error was shown in this run
    st_warning,            \* st.warning was shown in this run
    arg,                   \* argument of the function under test
    ret,                   \* its return value
    called                 \* the function under test has returned

vars == <<pc, runs, secrets, creds_cached, url_sheet, sheet_id, reader_called,
          reader_returned,
          raw_values, all_values, df, filter_done, colonnes_disponibles,
          df_filtre, upload_called, doc_created, temp_exists, file_id, report, st_error, st_warning, arg, ret, called>>

----------------------------------------------------------------------------
(* Bounds *)

MaxUrlLen == 6

MaxCellLen == 2

MaxHeaders == 3

MaxCols == 3

MaxRows == 1

MaxRuns == 2

----------------------------------------------------------------------------
(* Values *)

None == <<>>

Some(v) == <<v>>

EmptyStr == <<>>

Range(s) == {s[i] : i \in DOMAIN s}

StringsUpTo(A, n) == UNION {[1..k -> A] : k \in 0..n}

Max(S) == CHOOSE x \in S : \A y \in S : y <= x

Whitespace == {" "}

----------------------------------------------------------------------------
(* Python built-ins used by the script *)

\* s[i:] with a 1-based i
From(s, i) == SubSeq(s, i, Len(s))

\* str.find: 1-based index of the first occurrence of sep in s, 0 if none
RECURSIVE find_from(_, _, _)
find_from(s, sep, i) ==
    IF i + Len(sep) - 1 > Len(s) THEN 0
    ELSE IF SubSeq(s, i, i + Len(sep) - 1) = sep THEN i
    ELSE find_from(s, sep, i + 1)

find(s, sep) == find_from(s, sep, 1)

\* str.split(sep): scan left to right, cut at each non-overlapping occurrence
RECURSIVE split(_, _)
split(s, sep) ==
    LET i == find(s, sep)
    IN  IF i = 0 THEN <<s>>
        ELSE <<SubSeq(s, 1, i - 1)>> \o split(From(s, i + Len(sep)), sep)

\* str.strip(): drop leading and trailing whitespace
RECURSIVE lstrip(_)
lstrip(s) ==
    IF s # <<>> /\ Head(s) \in Whitespace THEN lstrip(Tail(s)) ELSE s

RECURSIVE rstrip(_)
rstrip(s) ==
    IF s # <<>> /\ s[Len(s)] \in Whitespace
    THEN rstrip(SubSeq(s, 1, Len(s) - 1)) ELSE s

strip(s) == rstrip(lstrip(s))

Digit(d) == <<"0", "1", "2", "3", "4", "5", "6", "7", "8", "9">>[d + 1]

\* str(n) for a natural number n
RECURSIVE Str(_)
Str(n) == IF n < 10 THEN <<Digit(n)>> ELSE Str(n \div 10) \o <<Digit(n % 10)>>

----------------------------------------------------------------------------
(* extract_sheet_id *)

SlashD == <<"/", "d", "/">>

Slash == <<"/">>

extract_sheet_id_nosplit(url) ==
    IF find(url, SlashD) # 0
    THEN Some(split(url, SlashD)[2])
    ELSE None

extract_sheet_id(url) ==
    IF find(url, SlashD) # 0
    THEN Some(split(split(url, SlashD)[2], Slash)[1])
    ELSE None

----------------------------------------------------------------------------
(* make_headers_unique *)

\* Counter()[h]
CounterGet(count, h) == IF h \in DOMAIN count THEN count[h] ELSE 0

\* count[h] += 1
CounterInc(count, h) ==
    [x \in DOMAIN count \cup {h} |->
        IF x = h THEN CounterGet(count, h) + 1 ELSE count[x]]

RECURSIVE make_headers_unique_loop(_, _, _)
make_headers_unique_loop(headers, count, result) ==
    IF headers = <<>> THEN result
    ELSE LET h == strip(Head(headers))
             c == CounterGet(count, h)
         IN  make_headers_unique_loop(
                 Tail(headers),
                 CounterInc(count, h),
                 Append(result, IF c = 0 THEN h ELSE h \o <<"_">> \o Str(c)))

make_headers_unique(headers) == make_headers_unique_loop(headers, <<>>, <<>>)

----------------------------------------------------------------------------
(* Configuration *)

\* The whitelist, cut down to two of its one-word entries
COLONNES_UTILISEES == << <<"Classe">>, <<"Nom">> >>

\* The module imports no name `os`
OsImported == FALSE

----------------------------------------------------------------------------
(* gspread and pandas, as the script uses them *)

\* Raw header cells a sheet may hold
HeaderCells ==
    { <<"Nom">>, <<"Nom", " ">>, <<"nom">>, <<"Classe">>, EmptyStr }

\* Raw data cells a sheet may hold
DataCells == { <<"v">> }

\* pandas' marker for a cell that was never given (None / NaN)
MissingCell == <<"NaN">>

\* The Sheets API returns ragged rows: trailing empty cells are left out
RawSheets ==
    {<<>>} \cup
    { <<h>> \o d :
        h \in StringsUpTo(HeaderCells, MaxCols),
        d \in StringsUpTo(StringsUpTo(DataCells, MaxCols), MaxRows) }

rightpad(row, max_len) ==
    row \o [i \in 1..(max_len - Len(row)) |-> EmptyStr]

\* gspread.utils.fill_gaps: pad every row with '' to the longest row
fill_gaps(L) ==
    LET max_cols == Max({Len(L[r]) : r \in DOMAIN L})
    IN  [r \in DOMAIN L |-> rightpad(L[r], max_cols)]

get_all_values_unpadded(raw) == raw

\* Worksheet.get_all_values(): [] for a sheet without values, else padded
get_all_values(raw) == IF raw = <<>> THEN <<>> ELSE fill_gaps(raw)

\* pd.DataFrame()
EmptyDataFrame == [columns |-> <<>>, rows |-> <<>>]

\* pd.DataFrame(data, columns=...) raises ValueError when the widest row
\* does not have as many cells as there are columns
DataFrameRaises(data, columns) ==
    /\ data # <<>>
    /\ Max({Len(data[r]) : r \in DOMAIN data}) # Len(columns)

\* pd.DataFrame(data, columns=...): shorter rows are filled with None
DataFrame(data, columns) ==
    [columns |-> columns,
     rows    |-> [r \in DOMAIN data |->
                     data[r] \o [i \in 1..(Len(columns) - Len(data[r])) |->
                                    MissingCell]]]

\* positions of the columns of d that carry the label
PositionsOf(columns, label) ==
    SelectSeq([i \in 1..Len(columns) |-> i], LAMBDA i : columns[i] = label)

RECURSIVE Positions(_, _)
Positions(columns, cols) ==
    IF cols = <<>> THEN <<>>
    ELSE PositionsOf(columns, Head(cols)) \o Positions(columns, Tail(cols))

\* d[cols] for a list of labels: the columns in the order of the list
getitem(d, cols) ==
    LET p == Positions(d.columns, cols)
    IN  [columns |-> [k \in 1..Len(p) |-> d.columns[p[k]]],
         rows    |-> [r \in 1..Len(d.rows) |->
                         [k \in 1..Len(p) |-> d.rows[r][p[k]]]]]

----------------------------------------------------------------------------
(* The conditions of the script *)

\* Inputs of the process and of the operator
SecretStates == {"ok", "no_section", "missing_key", "bad_key"}

UrlSamples ==
    { EmptyStr,
      <<"x">>,
      <<"/", "d", "/", "/">>,
      <<"x", "/", "d", "/", "x", "/", "x">> }

NameSamples == { EmptyStr, <<"x">> }

SecretsStop_sectiononly(s) == s = "no_section"

\* get_google_credentials calls st.stop(): the section is missing, a
\* required key is missing, or from_json_keyfile_dict raises
SecretsStop(s) == s \in {"no_section", "missing_key", "bad_key"}

InvalidSheetId_unchecked(id) == FALSE

\* `if not sheet_id`: None or the empty string
InvalidSheetId(id) == id = None \/ id = Some(EmptyStr)

AvailableColumns_tableorder(d) ==
    SelectSeq(d.columns, LAMBDA col : col \in Range(COLONNES_UTILISEES))

AvailableColumns_firstonly(d) ==
    LET found == SelectSeq(COLONNES_UTILISEES,
                           LAMBDA col : col \in Range(d.columns))
    IN  IF found = <<>> THEN <<>> ELSE <<Head(found)>>

\* [col for col in COLONNES_UTILISEES if col in df.columns]
AvailableColumns(d) ==
    SelectSeq(COLONNES_UTILISEES, LAMBDA col : col \in Range(d.columns))

LoadEmpty_failure == None

\* `if not all_values: return pd.DataFrame()`
LoadEmpty == Some(EmptyDataFrame)

\* the body of the loader's try block once the reader has answered
LoadFrom(values) ==
    IF values = <<>> THEN LoadEmpty
    ELSE LET headers == make_headers_unique(values[1])
             data    == Tail(values)
         IN  IF DataFrameRaises(data, headers) THEN None
             ELSE Some(DataFrame(data, headers))

----------------------------------------------------------------------------
(* One script run *)

RunStart ==
    /\ url_sheet = EmptyStr
    /\ sheet_id = None
    /\ reader_called = FALSE
    /\ reader_returned = FALSE
    /\ raw_values = <<>>
    /\ all_values = <<>>
    /\ df = None
    /\ filter_done = FALSE
    /\ colonnes_disponibles = <<>>
    /\ df_filtre = None
    /\ upload_called = FALSE
    /\ doc_created = FALSE
    /\ temp_exists = FALSE
    /\ file_id = None
    /\ report = "none"
    /\ st_error = FALSE
    /\ st_warning = FALSE

FnIdle ==
    /\ arg = <<>>
    /\ ret = <<>>
    /\ called = FALSE

Init ==
    /\ pc = "creds"
    /\ runs = 1
    /\ secrets \in SecretStates
    /\ creds_cached = FALSE
    /\ RunStart
    /\ FnIdle

\* lines 166-167: get_google_credentials() under st.cache_resource
GetCredentials ==
    /\ pc = "creds"
    /\ IF creds_cached
       THEN /\ pc' = "input"
            /\ UNCHANGED <<creds_cached, st_error>>
       ELSE IF SecretsStop(secrets)
       THEN /\ pc' = "stopped"
            /\ st_error' = TRUE
            /\ UNCHANGED creds_cached
       ELSE /\ pc' = "input"
            /\ creds_cached' = TRUE
            /\ UNCHANGED st_error
    /\ UNCHANGED <<runs, secrets, url_sheet, sheet_id, reader_called,
                   reader_returned,
                   raw_values, all_values, df, filter_done,
                   colonnes_disponibles, df_filtre, upload_called,
                   doc_created, temp_exists, file_id, report, st_warning, arg, ret, called>>

\* lines 169-172, 212-213: the URL text input and `if url_sheet`
TextInputUrl ==
    /\ pc = "input"
    /\ \E u \in UrlSamples :
        /\ url_sheet' = u
        /\ pc' = IF u # EmptyStr THEN "load" ELSE "done"
    /\ UNCHANGED <<runs, secrets, creds_cached, sheet_id, reader_called,
                   reader_returned,
                   raw_values, all_values, df, filter_done,
                   colonnes_disponibles, df_filtre, upload_called,
                   doc_created, temp_exists, file_id, report, st_error, st_warning, arg, ret, called>>

\* line 173: charger_dataframe_depuis_google_sheet(url_sheet, client)
charger_dataframe_depuis_google_sheet ==
    /\ pc = "load"
    /\ sheet_id' = extract_sheet_id(url_sheet)
    /\ IF InvalidSheetId(sheet_id')
       THEN /\ st_error' = TRUE
            /\ df' = None
            /\ UNCHANGED <<reader_called, reader_returned, raw_values, all_values>>
       ELSE /\ reader_called' = TRUE
            /\ \/ \* open_by_key / get_all_values raises
                  /\ st_error' = TRUE
                  /\ df' = None
                  /\ UNCHANGED <<reader_returned, raw_values, all_values>>
               \/ \E raw \in RawSheets :
                  /\ reader_returned' = TRUE
                  /\ raw_values' = raw
                  /\ all_values' = get_all_values(raw)
                  /\ df' = LoadFrom(all_values')
                  /\ st_error' = (df' = None)
    /\ st_warning' = (reader_called' /\ df' # None /\ all_values' = <<>>)
    /\ pc' = "filter"
    /\ UNCHANGED <<runs, secrets, creds_cached, url_sheet, filter_done,
                   colonnes_disponibles, df_filtre, upload_called,
                   doc_created, temp_exists, file_id, report, arg, ret, called>>

\* lines 175-186, 210-211: `if df is not None` and the column filter
ColumnFilter ==
    /\ pc = "filter"
    /\ IF df # None
       THEN /\ filter_done' = TRUE
            /\ colonnes_disponibles' = AvailableColumns(df[1])
            /\ IF colonnes_disponibles' = <<>>
               THEN /\ st_warning' = TRUE
                    /\ pc' = "done"
                    /\ UNCHANGED df_filtre
               ELSE /\ df_filtre' = Some(getitem(df[1], colonnes_disponibles'))
                    /\ pc' = "name"
                    /\ UNCHANGED st_warning
       ELSE /\ st_warning' = TRUE
            /\ pc' = "done"
            /\ UNCHANGED <<filter_done, colonnes_disponibles, df_filtre>>
    /\ UNCHANGED <<runs, secrets, creds_cached, url_sheet, sheet_id,
                   reader_called, reader_returned, raw_values, all_values, df, upload_called,
                   doc_created, temp_exists, file_id, report, st_error, arg, ret, called>>

\* lines 188-191, 208-209: the name input and the button
NameInput ==
    /\ pc = "name"
    /\ \E nom_utilisateur \in NameSamples, clicked \in BOOLEAN :
        IF nom_utilisateur # EmptyStr
        THEN /\ pc' = IF clicked THEN "export" ELSE "done"
             /\ UNCHANGED st_warning
        ELSE /\ pc' = "done"
             /\ st_warning' = TRUE
    /\ UNCHANGED <<runs, secrets, creds_cached, url_sheet, sheet_id,
                   reader_called, reader_returned, raw_values, all_values, df, filter_done,
                   colonnes_disponibles, df_filtre, upload_called,
                   doc_created, temp_exists, file_id, report, st_error, arg, ret, called>>

\* file.get("id"): the identifier Drive gives the new document
NewDocumentId == <<"id">>

\* What the collaborators of the export may do
ExportOutcomes == {"tempfile_raises", "to_csv_raises", "create_raises", "created"}

\* line 201: create_spreadsheet_with_data(nouveau_nom, df_filtre, creds)
create_spreadsheet_with_data ==
    /\ pc = "export"
    /\ \E outcome \in ExportOutcomes :
        \* NamedTemporaryFile(delete=False): the file stays until removed
        /\ LET written  == outcome # "tempfile_raises"
               reached  == outcome \in {"create_raises", "created"}
               created  == outcome = "created"
               \* os.remove(temp_file_path) raises NameError without `os`
               removed  == created /\ OsImported
               returned == created /\ OsImported
           IN  /\ upload_called' = reached
               /\ doc_created' = created
               /\ temp_exists' = (written /\ ~removed)
               /\ file_id' = IF returned THEN Some(NewDocumentId) ELSE None
               /\ st_error' = ~returned
    /\ pc' = "report"
    /\ UNCHANGED <<runs, secrets, creds_cached, url_sheet, sheet_id,
                   reader_called, reader_returned, raw_values, all_values, df, filter_done,
                   colonnes_disponibles, df_filtre, report, st_warning,
                   arg, ret, called>>

\* lines 203-207: `if file_id` success message, else failure message
ReportResult ==
    /\ pc = "report"
    /\ report' = IF file_id # None THEN "success" ELSE "failed"
    /\ pc' = "done"
    /\ UNCHANGED <<runs, secrets, creds_cached, url_sheet, sheet_id,
                   reader_called, reader_returned, raw_values, all_values, df, filter_done,
                   colonnes_disponibles, df_filtre, upload_called,
                   doc_created, temp_exists, file_id, st_error, st_warning, arg, ret, called>>

\* Streamlit runs the script again from the top on the next interaction
Rerun ==
    /\ pc \in {"done", "stopped"}
    /\ runs < MaxRuns
    /\ runs' = runs + 1
    /\ pc' = "creds"
    /\ url_sheet' = EmptyStr
    /\ sheet_id' = None
    /\ reader_called' = FALSE
    /\ reader_returned' = FALSE
    /\ raw_values' = <<>>
    /\ all_values' = <<>>
    /\ df' = None
    /\ filter_done' = FALSE
    /\ colonnes_disponibles' = <<>>
    /\ df_filtre' = None
    /\ upload_called' = FALSE
    /\ doc_created' = FALSE
    /\ temp_exists' = FALSE
    /\ file_id' = None
    /\ report' = "none"
    /\ st_error' = FALSE
    /\ st_warning' = FALSE
    /\ UNCHANGED <<secrets, creds_cached, arg, ret, called>>

Next ==
    \/ GetCredentials
    \/ TextInputUrl
    \/ charger_dataframe_depuis_google_sheet
    \/ ColumnFilter
    \/ NameInput
    \/ create_spreadsheet_with_data
    \/ ReportResult
    \/ Rerun

Spec == Init /\ [][Next]_vars

----------------------------------------------------------------------------
(* The two pure functions on their own *)

UrlAlphabet == {"/", "d", "x"}

HeaderAlphabet == {"a", " ", "_", "1"}

InitExtract ==
    /\ pc = "extract"
    /\ runs = 1
    /\ secrets = "ok"
    /\ creds_cached = FALSE
    /\ RunStart
    /\ arg \in StringsUpTo(UrlAlphabet, MaxUrlLen)
    /\ ret = <<>>
    /\ called = FALSE

CallExtractSheetId ==
    /\ pc = "extract"
    /\ ~called
    /\ ret' = extract_sheet_id(arg)
    /\ called' = TRUE
    /\ UNCHANGED <<pc, runs, secrets, creds_cached, url_sheet, sheet_id,
                   reader_called, reader_returned, raw_values, all_values,
                   df, filter_done, colonnes_disponibles, df_filtre,
                   upload_called, doc_created, temp_exists, file_id, report, st_error, st_warning, arg>>

NextExtract == CallExtractSheetId

SpecExtract == InitExtract /\ [][NextExtract]_vars

InitHeaders ==
    /\ pc = "headers"
    /\ runs = 1
    /\ secrets = "ok"
    /\ creds_cached = FALSE
    /\ RunStart
    /\ arg \in StringsUpTo(StringsUpTo(HeaderAlphabet, MaxCellLen), MaxHeaders)
    /\ ret = <<>>
    /\ called = FALSE

CallMakeHeadersUnique ==
    /\ pc = "headers"
    /\ ~called
    /\ ret' = make_headers_unique(arg)
    /\ called' = TRUE
    /\ UNCHANGED <<pc, runs, secrets, creds_cached, url_sheet, sheet_id,
                   reader_called, reader_returned, raw_values, all_values,
                   df, filter_done, colonnes_disponibles, df_filtre,
                   upload_called, doc_created, temp_exists, file_id, report, st_error, st_warning, arg>>

NextHeaders == CallMakeHeadersUnique

SpecHeaders == InitHeaders /\ [][NextHeaders]_vars

----------------------------------------------------------------------------
(* Properties *)

Min(S) == CHOOSE x \in S : \A y \in S : x <= y

Occurrences(s, sep) ==
    {i \in 1..(Len(s) - Len(sep) + 1) : SubSeq(s, i, i + Len(sep) - 1) = sep}

PairwiseDistinct(s) == \A i, j \in DOMAIN s : i # j => s[i] # s[j]

\* C1: make_headers_unique returns a sequence as long as its input whose
\* elements are pairwise distinct.
C1_HeadersUnique ==
    (pc = "headers" /\ called) =>
        /\ Len(ret) = Len(arg)
        /\ PairwiseDistinct(ret)

\* C2: once the create-document call has succeeded, the export returns the
\* new document's identifier and the run reports success; no run reports a
\* failed export after the remote document was created.
C2_CreatedIsReported ==
    /\ (pc \in {"report", "done"} /\ doc_created) => file_id = Some(NewDocumentId)
    /\ (pc = "done" /\ doc_created) => report = "success"
    /\ ~(report = "failed" /\ doc_created)

\* C3: no call of create_spreadsheet_with_data ends with its temporary file
\* still existing, whether the upload succeeded, the upload failed or the
\* serialization failed.
C3_TempFileDeleted ==
    pc \in {"report", "done"} => ~temp_exists

\* 1-based position of the first element of s equal to x
IndexIn(s, x) == Min({i \in DOMAIN s : s[i] = x})

Ascending(s, key(_)) ==
    \A k, l \in DOMAIN s : k < l => key(s[k]) < key(s[l])

TableIndex(label) == IndexIn(df[1].columns, label)

WhitelistIndex(label) == IndexIn(COLONNES_UTILISEES, label)

\* C4 as stated: the columns of the filtered table appear in the loaded
\* table's column order, not in the whitelist's order.
C4_TableOrder ==
    df_filtre # None => Ascending(df_filtre[1].columns, TableIndex)

\* C4 amended: the columns of the filtered table appear in the whitelist's
\* order, whatever the loaded table's column order is.
C4_WhitelistOrder ==
    df_filtre # None =>
        /\ df_filtre[1].columns = colonnes_disponibles
        /\ Ascending(df_filtre[1].columns, WhitelistIndex)

\* a filtered table of two columns that the loaded table holds the other
\* way round
C4_Witness ==
    /\ df_filtre # None
    /\ Len(df_filtre[1].columns) >= 2
    /\ ~Ascending(df_filtre[1].columns, TableIndex)

\* what extract_sheet_id must return: the characters after the first "/d/"
\* up to the next "/" or the end, and None without any "/d/"
ExpectedSheetId(url) ==
    IF Occurrences(url, SlashD) = {} THEN None
    ELSE LET rest    == From(url, Min(Occurrences(url, SlashD)) + Len(SlashD))
             slashes == {j \in DOMAIN rest : rest[j] = "/"}
         IN  Some(IF slashes = {} THEN rest
                  ELSE SubSeq(rest, 1, Min(slashes) - 1))

\* C5: extract_sheet_id returns the characters between the first "/d/" and
\* the next "/" (or the end of the string), and returns None exactly when
\* the URL does not contain "/d/".
C5_ExtractSheetId ==
    (pc = "extract" /\ called) =>
        /\ ret = ExpectedSheetId(arg)
        /\ (ret = None) <=> (Occurrences(arg, SlashD) = {})

\* an identifier cut at the "/" that follows it, in a URL with text before
\* the marker
C5_Witness ==
    /\ pc = "extract"
    /\ called
    /\ ret = Some(<<"x">>)
    /\ Min(Occurrences(arg, SlashD)) > 1
    /\ Len(arg) > Min(Occurrences(arg, SlashD)) + Len(SlashD)

\* C6: the reader is never called without an identifier; after a failed
\* load there is no column filtering and no upload; an upload is initiated
\* only after a successful load in the same run.
C6_NoStepPastFailure ==
    /\ reader_called => sheet_id # None
    /\ df = None => (~filter_done /\ df_filtre = None /\ ~upload_called)
    /\ upload_called => (reader_returned /\ df # None)

\* a run that ended after the reader raised
C6_Witness ==
    /\ pc = "done"
    /\ reader_called
    /\ ~reader_returned
    /\ df = None

\* C7: when the secret section or a required key is missing, or the
\* credentials cannot be built, the run stops before any pipeline step: no
\* spreadsheet read and no upload call.
C7_ConfigurationStops ==
    secrets # "ok" =>
        /\ pc \in {"creds", "stopped"}
        /\ ~creds_cached
        /\ ~reader_called
        /\ ~upload_called

\* a later run stopped again on a missing key
C7_Witness ==
    /\ secrets = "missing_key"
    /\ pc = "stopped"
    /\ runs > 1

NoIntersection ==
    Range(df[1].columns) \cap Range(COLONNES_UTILISEES) = {}

\* C8: a reader that yields zero rows gives a zero-row, zero-column table
\* and not a failure; when the whitelist has no intersection with the
\* table's columns the filter yields an empty result, no error is raised
\* and the run ends.
C8_EmptyIsNotAnError ==
    /\ (reader_returned /\ all_values = <<>>) => df = Some(EmptyDataFrame)
    /\ (filter_done /\ NoIntersection) =>
          /\ colonnes_disponibles = <<>>
          /\ df_filtre = None
          /\ pc = "done"
          /\ ~st_error
          /\ ~upload_called

\* a run over an empty sheet that went through the filter and ended
C8_Witness ==
    /\ reader_returned
    /\ all_values = <<>>
    /\ filter_done
    /\ pc = "done"

\* C9: a column is kept if and only if its normalized label equals a
\* whitelist entry: every kept column is a whitelist entry present in the
\* table, and every table column whose label is in the whitelist is kept.
C9_KeptIffWhitelisted ==
    filter_done =>
        LET table == df[1].columns
            wl    == Range(COLONNES_UTILISEES)
        IN  /\ \A c \in Range(colonnes_disponibles) :
                  c \in wl /\ c \in Range(table)
            /\ \A i \in DOMAIN table :
                  table[i] \in wl => table[i] \in Range(colonnes_disponibles)
            /\ df_filtre # None =>
                  /\ Range(df_filtre[1].columns) = Range(table) \cap wl
                  /\ Len(df_filtre[1].columns) =
                        Cardinality({i \in DOMAIN table : table[i] \in wl})

\* a table with both whitelist entries (one of them padded with a blank in
\* the sheet) and a column that differs from an entry by case only
C9_Witness ==
    /\ df_filtre # None
    /\ <<"Nom", " ">> \in Range(all_values[1])
    /\ <<"nom">> \in Range(df[1].columns)
    /\ Range(df_filtre[1].columns) = {<<"Classe">>, <<"Nom">>}

ShortRows ==
    {r \in 2..Len(raw_values) : Len(raw_values[r]) < Len(raw_values[1])}

====
